---- MODULE Spec2Model ----
(***************************************************************************)
(* Model of src/main.go: the HTTP handlers homeHandler, signupHandler,     *)
(* loginHandler, logoutHandler and weatherHandler, the two process-wide    *)
(* maps `users` and `sessions`, and the mutex `mu`.                        *)
(*                                                                         *)
(* net/http serves every connection in its own goroutine, one request at   *)
(* a time per connection, so the handlers of different connections         *)
(* interleave at every point where the code does not hold `mu`.            *)
(* A handler is cut into steps at its lock operations, at its map          *)
(* accesses and at its upstream call.  A map write occupies an interval    *)
(* (begin .. end): an access to the same map by another goroutine inside   *)
(* that interval is a data race, whose outcome Go leaves undefined.        *)
(* Template execution is taken to succeed (the templates are not part of   *)
(* the source).                                                            *)
(***************************************************************************)
EXTENDS Integers, Sequences, FiniteSets, TLC

VARIABLES
    users,      \* map[string]string, email -> password        (main.go:20)
    sessions,   \* map[string]string, sessionID -> email       (main.go:21)
    mu,         \* sync.Mutex: Free, or the request holding it  (main.go:22)
    apiKey,     \* os.Getenv("WEATHER_API_KEY")                (main.go:154)
    alive,      \* FALSE once the runtime has killed the process
    pc,         \* per connection: the position of the handler running on it
    req,        \* per connection: route, method, form values, cookie, query
    sid,        \* per connection: loginHandler's local sessionID
    upstream,   \* per connection: what http.Get / ReadAll / Unmarshal produced
    calls,      \* per connection: upstream http.Get calls of the current request
    resp,       \* per connection: the response written to the current request
    afterLogout \* per connection (history): the current request was sent after
                \* the response to a logout that carried the same cookie

vars ==
    <<users, sessions, mu, apiKey, alive, pc, req, sid, upstream, calls, resp,
      afterLogout>>

-----------------------------------------------------------------------------
(* Bounds of the model *)

\* number of connections, hence of requests that can be in flight at once
NReq == 2
\* number of distinct values time.Now().UnixNano() takes during a run
MaxNano == 2

Reqs == 1..NReq
Emails == {"a@x.io", "b@x.io"}
Passwords == {"pw1", "pw2"}
Methods == {"GET", "POST", "PUT"}
Cities == {"", "Paris"}
ApiKeys == {"", "key"}

\* the mutex when no goroutine holds it
Free == 0

-----------------------------------------------------------------------------
(* Go maps as functions with a growing and shrinking domain *)

EmptyMap == [k \in {} |-> ""]
Has(m, k) == k \in DOMAIN m
Put(m, k, v) == [x \in (DOMAIN m) \cup {k} |-> IF x = k THEN v ELSE m[x]]
Delete(m, k) == [x \in (DOMAIN m) \ {k} |-> m[x]]

\* fmt.Sprintf("%d", time.Now().UnixNano())
SessionIDOf(nano) == ToString(nano)
SessionIDs == {SessionIDOf(n) : n \in 1..MaxNano}

\* r.Cookie("session_id"): <<>> when the request carries no such cookie
\* (err != nil), <<value>> otherwise
NoCookie == <<>>
Cookies == {NoCookie} \cup {<<s>> : s \in SessionIDs}

-----------------------------------------------------------------------------
(* Requests and responses *)

StatusOK == 200
StatusSeeOther == 303
StatusBadRequest == 400
StatusUnauthorized == 401
StatusMethodNotAllowed == 405
StatusConflict == 409
StatusInternalServerError == 500

Request(route, method, email, password, cookie, city) ==
    [route |-> route, method |-> method, email |-> email,
     password |-> password, cookie |-> cookie, city |-> city]

\* homeHandler and logoutHandler never read r.Method: two methods stand for all
BlindMethods == {"GET", "POST"}

\* what a client can send to each registered route (main.go:40-44); a field
\* the handler never reads is left at its zero value
HomeRequests == {Request("/", m, "", "", c, "") : m \in BlindMethods, c \in Cookies}
FormRequests(route) ==
    {Request(route, "POST", e, p, NoCookie, "") : e \in Emails, p \in Passwords}
        \cup {Request(route, m, "", "", NoCookie, "") : m \in Methods \ {"POST"}}
LogoutRequests ==
    {Request("/logout", m, "", "", c, "") : m \in BlindMethods, c \in Cookies}
WeatherRequests ==
    {Request("/weather", "GET", "", "", NoCookie, c) : c \in Cities}
        \cup {Request("/weather", m, "", "", NoCookie, "") : m \in Methods \ {"GET"}}
Requests ==
    HomeRequests \cup FormRequests("/signup") \cup FormRequests("/login")
        \cup LogoutRequests \cup WeatherRequests

NoRequest == Request("", "", "", "", NoCookie, "")

\* the entry point http.HandleFunc registers for a route
HandlerOf(route) ==
    CASE route = "/" -> "home"
      [] route = "/signup" -> "signup"
      [] route = "/login" -> "login"
      [] route = "/logout" -> "logout"
      [] route = "/weather" -> "weather"

\* a response: status line, Location header, Set-Cookie header (<<>> when
\* none, <<value, maxAge>> otherwise), the template executed and its data,
\* or the plain-text body of http.Error
Response(status, location, setCookie, view, data, body) ==
    [status |-> status, location |-> location, setCookie |-> setCookie,
     view |-> view, data |-> data, body |-> body]

NoData == [k \in {} |-> ""]
\* nothing written yet
NoResponse == Response(0, "", <<>>, "", NoData, "")
\* a handler that returns without writing: net/http sends 200 and no body
EmptyResponse == Response(StatusOK, "", <<>>, "", NoData, "")
\* http.Error(w, msg, code)
HttpError(msg, code) == Response(code, "", <<>>, "", NoData, msg)
\* http.Redirect(w, r, url, code), after the Set-Cookie headers already set
Redirect(url, code, setCookie) == Response(code, url, setCookie, "", NoData, "")
\* templates.ExecuteTemplate(w, name, data)
ExecuteTemplate(name, data) == Response(StatusOK, "", <<>>, name, data, "")

NoUpstream == [kind |-> "none"]

-----------------------------------------------------------------------------
(* Initial state: main() has registered the handlers; both maps are empty *)

Init ==
    /\ users = EmptyMap
    /\ sessions = EmptyMap
    /\ mu = Free
    /\ apiKey \in ApiKeys
    /\ alive = TRUE
    /\ pc = [r \in Reqs |-> "idle"]
    /\ req = [r \in Reqs |-> NoRequest]
    /\ sid = [r \in Reqs |-> ""]
    /\ upstream = [r \in Reqs |-> NoUpstream]
    /\ calls = [r \in Reqs |-> 0]
    /\ resp = [r \in Reqs |-> NoResponse]
    /\ afterLogout = [r \in Reqs |-> FALSE]

\* the goroutine of r has returned from (or was unwound out of) its handler
Finished(r) == pc[r] \in {"idle", "done", "panicked"}

\* the request q now sent on connection r is a home request that follows a
\* completed logout carrying the same session_id cookie
FollowsLogout(r, q) ==
    /\ q.route = "/"
    /\ q.cookie # NoCookie
    /\ pc[r] = "done"
    /\ req[r].route = "/logout"
    /\ req[r].cookie = q.cookie

\* net/http reads the next request of a connection whose previous handler
\* has returned and calls its handler (connections are interchangeable: the
\* lowest one that is free takes the request); the clients send requests
\* of the set Q
ArriveFrom(r, Q) ==
    /\ alive
    /\ Finished(r)
    /\ \A o \in Reqs : o < r => ~Finished(o)
    /\ \E q \in Q :
        /\ req' = [req EXCEPT ![r] = q]
        /\ pc' = [pc EXCEPT ![r] = HandlerOf(q.route)]
        /\ afterLogout' = [afterLogout EXCEPT ![r] = FollowsLogout(r, q)]
    /\ sid' = [sid EXCEPT ![r] = ""]
    /\ upstream' = [upstream EXCEPT ![r] = NoUpstream]
    /\ calls' = [calls EXCEPT ![r] = 0]
    /\ resp' = [resp EXCEPT ![r] = NoResponse]
    /\ UNCHANGED <<users, sessions, mu, apiKey, alive>>

\* clients that use every route
Arrive(r) == ArriveFrom(r, Requests)

\* the handler of r returns having written response v
Respond(r, v) ==
    /\ resp' = [resp EXCEPT ![r] = v]
    /\ pc' = [pc EXCEPT ![r] = "done"]
    /\ afterLogout' = [afterLogout EXCEPT ![r] = FALSE]

-----------------------------------------------------------------------------
(* The mutex and the data races it is there to prevent *)

\* faulty variant: the handlers run without mu
NoLock(r) == TRUE

\* mu.Lock() returns for r only when no goroutine holds mu
CanLock(r) == mu = Free

\* goroutines inside a write of the map (between its begin and its end);
\* delete on an empty map returns before it touches the map
UsersWriters == {r \in Reqs : pc[r] = "su_write"}
SessionsWriters ==
    {r \in Reqs : pc[r] = "li_write" \/ (pc[r] = "lo_write" /\ sessions # EmptyMap)}

\* an access by r to a map that another goroutine is writing is a data race
RaceOnUsers(r) == UsersWriters \ {r} # {}
RaceOnSessions(r) == SessionsWriters \ {r} # {}

\* "fatal error: concurrent map read and map write" / "concurrent map
\* writes": the runtime kills the process, no handler runs any further
Fatal ==
    /\ alive' = FALSE
    /\ UNCHANGED <<users, sessions, mu, apiKey, pc, req, sid, upstream, calls, resp,
                   afterLogout>>

-----------------------------------------------------------------------------
(* homeHandler, main.go:54-69.  It reads `sessions` without taking mu. *)

\* email, exists := m[k]
Lookup(m, k) == IF Has(m, k) THEN <<m[k], TRUE>> ELSE <<"", FALSE>>

\* what a lookup that races with a write of the map can yield
RacyLookups == {<<"", FALSE>>} \cup {<<e, TRUE>> : e \in Emails}

\* the template data built from the result of the lookup
HomeData(found) ==
    IF found[2] THEN [LoggedIn |-> TRUE, Email |-> found[1]]
    ELSE [LoggedIn |-> FALSE]

HomeRender(r, found) ==
    /\ Respond(r, ExecuteTemplate("home.html", HomeData(found)))
    /\ UNCHANGED <<users, sessions, mu, apiKey, alive, req, sid, upstream, calls>>

HomeHandler(r) ==
    /\ alive
    /\ pc[r] = "home"
    /\ IF req[r].cookie = NoCookie
       THEN HomeRender(r, <<"", FALSE>>)
       ELSE IF RaceOnSessions(r)
            THEN Fatal \/ \E found \in RacyLookups : HomeRender(r, found)
            ELSE HomeRender(r, Lookup(sessions, req[r].cookie[1]))

-----------------------------------------------------------------------------
(* signupHandler, main.go:120-145 *)

\* GET: render the form
SignupGet(r) ==
    /\ alive
    /\ pc[r] = "signup"
    /\ req[r].method = "GET"
    /\ Respond(r, ExecuteTemplate("signup.html", NoData))
    /\ UNCHANGED <<users, sessions, mu, apiKey, alive, req, sid, upstream, calls>>

\* neither GET nor POST: both ifs are skipped and the handler returns
SignupOther(r) ==
    /\ alive
    /\ pc[r] = "signup"
    /\ req[r].method \notin {"GET", "POST"}
    /\ Respond(r, EmptyResponse)
    /\ UNCHANGED <<users, sessions, mu, apiKey, alive, req, sid, upstream, calls>>

\* POST: mu.Lock(); defer mu.Unlock()
SignupLock(r) ==
    /\ alive
    /\ pc[r] = "signup"
    /\ req[r].method = "POST"
    /\ CanLock(r)
    /\ mu' = r
    /\ pc' = [pc EXCEPT ![r] = "su_locked"]
    /\ UNCHANGED <<users, sessions, apiKey, alive, req, sid, upstream, calls, resp,
                   afterLogout>>

\* faulty variant: the duplicate check never fires
SignupExistsNever(m, email) == FALSE

\* if _, exists := users[email]; exists
SignupExists(m, email) == Has(m, email)

\* the check: 409 and the deferred unlock, or the start of the insert
SignupCheck(r) ==
    /\ alive
    /\ pc[r] = "su_locked"
    /\ IF RaceOnUsers(r)
       THEN Fatal
       ELSE IF SignupExists(users, req[r].email)
            THEN /\ Respond(r, HttpError("User already exists", StatusConflict))
                 /\ mu' = Free
                 /\ UNCHANGED <<users, sessions, apiKey, alive, req, sid, upstream, calls>>
            ELSE /\ pc' = [pc EXCEPT ![r] = "su_write"]
                 /\ UNCHANGED <<users, sessions, mu, apiKey, alive, req, sid,
                                upstream, calls, resp, afterLogout>>

\* faulty variant: the insert replaces the map instead of adding to it
SignupStoreFresh(m, email, password) == [k \in {email} |-> password]

\* users[email] = password
SignupStore(m, email, password) == Put(m, email, password)

\* the insert completes; redirect; the deferred unlock runs
SignupInsert(r) ==
    /\ alive
    /\ pc[r] = "su_write"
    /\ users' = SignupStore(users, req[r].email, req[r].password)
    /\ Respond(r, Redirect("/login", StatusSeeOther, <<>>))
    /\ mu' = Free
    /\ UNCHANGED <<sessions, apiKey, alive, req, sid, upstream, calls>>

-----------------------------------------------------------------------------
(* loginHandler, main.go:71-100 *)

LoginGet(r) ==
    /\ alive
    /\ pc[r] = "login"
    /\ req[r].method = "GET"
    /\ Respond(r, ExecuteTemplate("login.html", NoData))
    /\ UNCHANGED <<users, sessions, mu, apiKey, alive, req, sid, upstream, calls>>

LoginOther(r) ==
    /\ alive
    /\ pc[r] = "login"
    /\ req[r].method \notin {"GET", "POST"}
    /\ Respond(r, EmptyResponse)
    /\ UNCHANGED <<users, sessions, mu, apiKey, alive, req, sid, upstream, calls>>

LoginLock(r) ==
    /\ alive
    /\ pc[r] = "login"
    /\ req[r].method = "POST"
    /\ CanLock(r)
    /\ mu' = r
    /\ pc' = [pc EXCEPT ![r] = "li_locked"]
    /\ UNCHANGED <<users, sessions, apiKey, alive, req, sid, upstream, calls, resp,
                   afterLogout>>

\* faulty variant: the check is inverted away, every login passes
AuthenticatesAnyone(m, email, password) == TRUE

\* faulty variant: the password comparison is dropped
AuthenticatesByEmail(m, email, password) == Has(m, email)

\* the negation of: !exists || storedPassword != password
Authenticates(m, email, password) == Has(m, email) /\ m[email] = password

\* the values time.Now().UnixNano() can return: a wall-clock reading, which
\* can repeat (clock resolution) and step back (clock adjustment)
NanoReadings == 1..MaxNano

\* the check: 401 and the deferred unlock, or sessionID is drawn from the
\* clock and the write of sessions[sessionID] starts
LoginCheck(r) ==
    /\ alive
    /\ pc[r] = "li_locked"
    /\ IF RaceOnUsers(r)
       THEN Fatal
       ELSE IF ~Authenticates(users, req[r].email, req[r].password)
            THEN /\ Respond(r, HttpError("Invalid email or password", StatusUnauthorized))
                 /\ mu' = Free
                 /\ UNCHANGED <<users, sessions, apiKey, alive, req, sid, upstream, calls>>
            ELSE IF RaceOnSessions(r)
            THEN Fatal
            ELSE /\ \E nano \in NanoReadings :
                        sid' = [sid EXCEPT ![r] = SessionIDOf(nano)]
                 /\ pc' = [pc EXCEPT ![r] = "li_write"]
                 /\ UNCHANGED <<users, sessions, mu, apiKey, alive, req,
                                upstream, calls, resp, afterLogout>>

\* faulty variant: key and value are swapped
SessionCreateSwapped(m, sessionID, email) == Put(m, email, sessionID)

\* sessions[sessionID] = email
SessionCreate(m, sessionID, email) == Put(m, sessionID, email)

\* http.SetCookie(w, &http.Cookie{Name: "session_id", Value: sessionID, Path: "/"})
SessionCookie(sessionID) == <<sessionID, 0>>

\* the write completes; cookie; redirect home; the deferred unlock runs
LoginStore(r) ==
    /\ alive
    /\ pc[r] = "li_write"
    /\ sessions' = SessionCreate(sessions, sid[r], req[r].email)
    /\ Respond(r, Redirect("/", StatusSeeOther, SessionCookie(sid[r])))
    /\ mu' = Free
    /\ UNCHANGED <<users, apiKey, alive, req, sid, upstream, calls>>

-----------------------------------------------------------------------------
(* logoutHandler, main.go:102-118.  It never looks at r.Method. *)

\* http.SetCookie(w, &http.Cookie{Name: "session_id", Value: "", MaxAge: -1})
ClearedCookie == <<"", -1>>

\* no session_id cookie: nothing is locked or deleted
LogoutNoCookie(r) ==
    /\ alive
    /\ pc[r] = "logout"
    /\ req[r].cookie = NoCookie
    /\ Respond(r, Redirect("/", StatusSeeOther, ClearedCookie))
    /\ UNCHANGED <<users, sessions, mu, apiKey, alive, req, sid, upstream, calls>>

\* mu.Lock()
LogoutLock(r) ==
    /\ alive
    /\ pc[r] = "logout"
    /\ req[r].cookie # NoCookie
    /\ CanLock(r)
    /\ mu' = r
    /\ pc' = [pc EXCEPT ![r] = "lo_locked"]
    /\ UNCHANGED <<users, sessions, apiKey, alive, req, sid, upstream, calls, resp,
                   afterLogout>>

\* delete(sessions, sessionID.Value) starts
LogoutBegin(r) ==
    /\ alive
    /\ pc[r] = "lo_locked"
    /\ IF RaceOnSessions(r)
       THEN Fatal
       ELSE /\ pc' = [pc EXCEPT ![r] = "lo_write"]
            /\ UNCHANGED <<users, sessions, mu, apiKey, alive, req, sid,
                           upstream, calls, resp, afterLogout>>

\* faulty variant: the logout drops every session
SessionDestroyAll(m, sessionID) == EmptyMap

\* delete(sessions, sessionID.Value)
SessionDestroy(m, sessionID) == Delete(m, sessionID)

\* the delete completes; mu.Unlock(); clear the cookie; redirect home
LogoutDelete(r) ==
    /\ alive
    /\ pc[r] = "lo_write"
    /\ sessions' = SessionDestroy(sessions, req[r].cookie[1])
    /\ mu' = Free
    /\ Respond(r, Redirect("/", StatusSeeOther, ClearedCookie))
    /\ UNCHANGED <<users, apiKey, alive, req, sid, upstream, calls>>

-----------------------------------------------------------------------------
(* weatherHandler, main.go:147-223 *)

\* values json.Unmarshal stores in an interface{}: nil, string, float64
\* (in tenths), []interface{} and map[string]interface{}
JNil == [t |-> "nil"]
JString(s) == [t |-> "string", s |-> s]
JFloat(tenths) == [t |-> "float64", tenths |-> tenths]
JSlice(elems) == [t |-> "slice", elems |-> elems]
JMap(m) == [t |-> "map", m |-> m]

\* m[k] on a map[string]interface{}: nil for a missing key
Index(m, k) == IF k \in DOMAIN m THEN m[k] ELSE JNil

\* fmt's %.1f and %v (%g, shortest form) of a float64 held in tenths
FormatF1(tenths) ==
    (IF tenths < 0 THEN "-" ELSE "")
        \o ToString((IF tenths < 0 THEN -tenths ELSE tenths) \div 10) \o "."
        \o ToString((IF tenths < 0 THEN -tenths ELSE tenths) % 10)
FormatG(tenths) ==
    IF tenths % 10 = 0
    THEN (IF tenths < 0 THEN "-" ELSE "")
            \o ToString((IF tenths < 0 THEN -tenths ELSE tenths) \div 10)
    ELSE FormatF1(tenths)

\* fmt's %s and %v of an interface{} value
FormatS(v) ==
    CASE v.t = "string" -> v.s
      [] v.t = "nil" -> "%!s(<nil>)"
      [] v.t = "float64" -> "%!s(float64=" \o FormatG(v.tenths) \o ")"
      [] OTHER -> "%!s(" \o v.t \o ")"
FormatV(v) ==
    CASE v.t = "string" -> v.s
      [] v.t = "nil" -> "<nil>"
      [] v.t = "float64" -> FormatG(v.tenths)
      [] OTHER -> "(" \o v.t \o ")"

\* the suffix of the Temperature format string, as the bytes of main.go:210
\* decode: U+00C2, U+00B0, 'C'
DegreeSuffix == "<U+00C2><U+00B0>C"

RateLimitMessage == "Weather API request limit reached. Please try again later."
NotFoundMessage == "City not found. Please check your input."

\* faulty variant: any error that has a type is reported as the rate limit
ErrorBranchAnyType(result) ==
    LET apiError == Index(result, "error") IN
    IF apiError.t # "map" THEN [panic |-> TRUE]
    ELSE IF Index(apiError.m, "type") # JNil
         THEN [panic |-> FALSE,
               response |-> ExecuteTemplate("error.html", [Message |-> RateLimitMessage])]
         ELSE [panic |-> FALSE,
               response |-> ExecuteTemplate("error.html", [Message |-> NotFoundMessage])]

\* main.go:186-203: the error branch. "panic" when the type assertion on
\* result["error"] fails.
ErrorBranch(result) ==
    LET apiError == Index(result, "error") IN
    IF apiError.t # "map" THEN [panic |-> TRUE]
    ELSE IF Index(apiError.m, "type") = JString("rate_limit_reached")
         THEN [panic |-> FALSE,
               response |-> ExecuteTemplate("error.html", [Message |-> RateLimitMessage])]
         ELSE [panic |-> FALSE,
               response |-> ExecuteTemplate("error.html", [Message |-> NotFoundMessage])]

\* faulty variant: location["name"] and location["country"] are asserted to
\* be strings as well
ResultPanicsStrict(result) ==
    LET current == Index(result, "current")
        location == Index(result, "location")
    IN  \/ current.t # "map"
        \/ location.t # "map"
        \/ Index(location.m, "name").t # "string"
        \/ Index(location.m, "country").t # "string"
        \/ Index(current.m, "temperature").t # "float64"
        \/ Index(current.m, "weather_descriptions").t # "slice"
        \/ Len(Index(current.m, "weather_descriptions").elems) = 0
        \/ Index(current.m, "weather_descriptions").elems[1].t # "string"

\* main.go:205-217: the type assertions of the success path, in the order
\* the code evaluates them
ResultPanics(result) ==
    LET current == Index(result, "current")
        location == Index(result, "location")
    IN  \/ current.t # "map"
        \/ location.t # "map"
        \/ Index(current.m, "temperature").t # "float64"
        \/ Index(current.m, "weather_descriptions").t # "slice"
        \/ Len(Index(current.m, "weather_descriptions").elems) = 0
        \/ Index(current.m, "weather_descriptions").elems[1].t # "string"

\* main.go:208-214: the data handed to weather_result.html
ResultData(result) ==
    LET current == Index(result, "current").m
        location == Index(result, "location").m
    IN  [City |-> FormatS(Index(location, "name")) \o ", "
                    \o FormatS(Index(location, "country")),
         Temperature |-> FormatF1(Index(current, "temperature").tenths) \o DegreeSuffix,
         Weather |-> Index(current, "weather_descriptions").elems[1].s,
         Humidity |-> FormatV(Index(current, "humidity")) \o "%",
         WindSpeed |-> FormatV(Index(current, "wind_speed")) \o " km/h"]

\* faulty variant: the err of http.Get, io.ReadAll and json.Unmarshal is not
\* checked, the handler goes on with the nil map
WeatherOutcomeUnchecked(u) ==
    IF u.kind # "decoded" THEN [panic |-> TRUE]
    ELSE IF Index(u.result, "error") # JNil THEN ErrorBranch(u.result)
    ELSE IF ResultPanics(u.result) THEN [panic |-> TRUE]
    ELSE [panic |-> FALSE,
          response |-> ExecuteTemplate("weather_result.html", ResultData(u.result))]

\* main.go:162-217: what the handler does with the outcome u of the
\* upstream call
WeatherOutcome(u) ==
    CASE u.kind = "get_error" ->
            [panic |-> FALSE,
             response |-> HttpError("Failed to fetch weather", StatusInternalServerError)]
      [] u.kind = "read_error" ->
            [panic |-> FALSE,
             response |-> HttpError("Failed to read weather data", StatusInternalServerError)]
      [] u.kind = "decode_error" ->
            [panic |-> FALSE,
             response |-> HttpError("Failed to decode weather data", StatusInternalServerError)]
      [] u.kind = "decoded" ->
            IF Index(u.result, "error") # JNil THEN ErrorBranch(u.result)
            ELSE IF ResultPanics(u.result) THEN [panic |-> TRUE]
            ELSE [panic |-> FALSE,
                  response |-> ExecuteTemplate("weather_result.html", ResultData(u.result))]

\* upstream bodies that decode into a map[string]interface{}
ParisResult ==
    [current |-> JMap([temperature |-> JFloat(215),
                       weather_descriptions |-> JSlice(<<JString("Sunny")>>),
                       humidity |-> JFloat(400),
                       wind_speed |-> JFloat(100)]),
     location |-> JMap([name |-> JString("Paris"), country |-> JString("France")])]
ErrorResult(type) == [error |-> JMap([type |-> JString(type)])]
EmptyResult == [k \in {} |-> JNil]
Results ==
    {ParisResult, ErrorResult("rate_limit_reached"), ErrorResult("invalid_access_key"),
     EmptyResult}

\* every way http.Get, io.ReadAll and json.Unmarshal can turn out
Upstreams ==
    {[kind |-> "get_error"], [kind |-> "read_error"], [kind |-> "decode_error"]}
        \cup {[kind |-> "decoded", result |-> d] : d \in Results}

\* the parts of the body the success path expects (main.go:205-213)
ParisCurrent ==
    [temperature |-> JFloat(215),
     weather_descriptions |-> JSlice(<<JString("Sunny")>>),
     humidity |-> JFloat(400),
     wind_speed |-> JFloat(100)]
ParisLocation == [name |-> JString("Paris"), country |-> JString("France")]
CurrentFields == DOMAIN ParisCurrent
LocationFields == DOMAIN ParisLocation

\* a decoded JSON object without key k, and with key k holding v
Without(m, k) == [x \in (DOMAIN m) \ {k} |-> m[x]]
With(m, k, v) == [x \in (DOMAIN m) \cup {k} |-> IF x = k THEN v ELSE m[x]]

\* a value of another JSON type than the code expects under key k: a string
\* where a number or an array is expected, a number where a string is
WrongValue(k) ==
    CASE k = "temperature" -> JString("21.5")
      [] k = "weather_descriptions" -> JString("Sunny")
      [] k = "humidity" -> JString("40")
      [] k = "wind_speed" -> JString("10")
      [] k = "name" -> JFloat(10)
      [] k = "country" -> JFloat(10)

\* the expected body with one deviation
Body(current, location) == [current |-> current, location |-> location]
MissingTop(k) == Without(Body(JMap(ParisCurrent), JMap(ParisLocation)), k)
WrongTop(k) == With(Body(JMap(ParisCurrent), JMap(ParisLocation)), k, JString("n/a"))
MissingCurrent(k) == Body(JMap(Without(ParisCurrent, k)), JMap(ParisLocation))
WrongCurrent(k) == Body(JMap(With(ParisCurrent, k, WrongValue(k))), JMap(ParisLocation))
MissingLocation(k) == Body(JMap(ParisCurrent), JMap(Without(ParisLocation, k)))
WrongLocation(k) == Body(JMap(ParisCurrent), JMap(With(ParisLocation, k, WrongValue(k))))
NoDescriptions ==
    Body(JMap(With(ParisCurrent, "weather_descriptions", JSlice(<<>>))),
         JMap(ParisLocation))
NumericDescription ==
    Body(JMap(With(ParisCurrent, "weather_descriptions", JSlice(<<JFloat(10)>>))),
         JMap(ParisLocation))

DeviantResults ==
    {MissingTop(k) : k \in {"current", "location"}}
        \cup {WrongTop(k) : k \in {"current", "location"}}
        \cup {MissingCurrent(k) : k \in CurrentFields}
        \cup {WrongCurrent(k) : k \in CurrentFields}
        \cup {MissingLocation(k) : k \in LocationFields}
        \cup {WrongLocation(k) : k \in LocationFields}
        \cup {NoDescriptions, NumericDescription}

\* bodies with a top-level "error": an object with a string type, with no
\* type, with a null or numeric type; and an error that is not an object
ErrorResults ==
    {ErrorResult("rate_limit_reached"), ErrorResult("invalid_access_key"),
     ErrorResult(""),
     [error |-> JMap([k \in {} |-> JNil])],
     [error |-> JMap([type |-> JNil])],
     [error |-> JMap([type |-> JFloat(1040)])],
     [error |-> JMap([code |-> JFloat(1040), type |-> JString("rate_limit_reached")])],
     [error |-> JString("rate_limit_reached")]}

\* every way the upstream call can turn out, over all these bodies
WeatherUpstreams ==
    Upstreams
        \cup {[kind |-> "decoded", result |-> d] : d \in ErrorResults \cup DeviantResults}

\* r.Method != http.MethodGet
WeatherMethod(r) ==
    /\ alive
    /\ pc[r] = "weather"
    /\ req[r].method # "GET"
    /\ Respond(r, HttpError("Invalid request method", StatusMethodNotAllowed))
    /\ UNCHANGED <<users, sessions, mu, apiKey, alive, req, sid, upstream, calls>>

\* faulty variant: && in place of ||
MissingBoth(city, key) == city = "" /\ key = ""

\* city == "" || apiKey == ""
MissingParams(city, key) == city = "" \/ key = ""

WeatherBadRequest(r) ==
    /\ alive
    /\ pc[r] = "weather"
    /\ req[r].method = "GET"
    /\ MissingParams(req[r].city, apiKey)
    /\ Respond(r, HttpError("Missing city or API key", StatusBadRequest))
    /\ UNCHANGED <<users, sessions, mu, apiKey, alive, req, sid, upstream, calls>>

\* faulty variant: the handler takes mu before the upstream call
WeatherGetLocked(r) ==
    /\ alive
    /\ pc[r] = "weather"
    /\ req[r].method = "GET"
    /\ ~MissingParams(req[r].city, apiKey)
    /\ CanLock(r)
    /\ mu' = r
    /\ calls' = [calls EXCEPT ![r] = @ + 1]
    /\ pc' = [pc EXCEPT ![r] = "w_get"]
    /\ UNCHANGED <<users, sessions, apiKey, alive, req, sid, upstream, resp,
                   afterLogout>>

\* http.Get(url) is issued; the goroutine blocks in it
WeatherGet(r) ==
    /\ alive
    /\ pc[r] = "weather"
    /\ req[r].method = "GET"
    /\ ~MissingParams(req[r].city, apiKey)
    /\ calls' = [calls EXCEPT ![r] = @ + 1]
    /\ pc' = [pc EXCEPT ![r] = "w_get"]
    /\ UNCHANGED <<users, sessions, mu, apiKey, alive, req, sid, upstream, resp,
                   afterLogout>>

\* the call returns; the rest of the handler runs. A failed type assertion
\* panics: net/http recovers it and drops the connection, nothing is written
WeatherReturnFrom(r, U) ==
    /\ alive
    /\ pc[r] = "w_get"
    /\ \E u \in U :
        /\ upstream' = [upstream EXCEPT ![r] = u]
        /\ IF WeatherOutcome(u).panic
           THEN /\ pc' = [pc EXCEPT ![r] = "panicked"]
                /\ UNCHANGED <<resp, afterLogout>>
           ELSE Respond(r, WeatherOutcome(u).response)
    /\ UNCHANGED <<users, sessions, mu, apiKey, alive, req, sid, calls>>

\* an upstream that answers with one of the bodies of Results
WeatherReturn(r) == WeatherReturnFrom(r, Upstreams)

-----------------------------------------------------------------------------
(* The server: any handler step of any request *)

Next ==
    \E r \in Reqs :
        \/ Arrive(r)
        \/ HomeHandler(r)
        \/ SignupGet(r)
        \/ SignupOther(r)
        \/ SignupLock(r)
        \/ SignupCheck(r)
        \/ SignupInsert(r)
        \/ LoginGet(r)
        \/ LoginOther(r)
        \/ LoginLock(r)
        \/ LoginCheck(r)
        \/ LoginStore(r)
        \/ LogoutNoCookie(r)
        \/ LogoutLock(r)
        \/ LogoutBegin(r)
        \/ LogoutDelete(r)
        \/ WeatherMethod(r)
        \/ WeatherBadRequest(r)
        \/ WeatherGet(r)
        \/ WeatherReturn(r)

Spec == Init /\ [][Next]_vars

-----------------------------------------------------------------------------
(* The server under clients that only use /weather, with an upstream that  *)
(* can answer with any of the bodies of WeatherUpstreams.  weatherHandler  *)
(* shares no state with the other handlers.                                *)

WeatherArrive(r) == ArriveFrom(r, WeatherRequests)

WeatherReturnAny(r) == WeatherReturnFrom(r, WeatherUpstreams)

WeatherNext ==
    \E r \in Reqs :
        \/ WeatherArrive(r)
        \/ WeatherMethod(r)
        \/ WeatherBadRequest(r)
        \/ WeatherGet(r)
        \/ WeatherReturnAny(r)

WeatherSpec == Init /\ [][WeatherNext]_vars

-----------------------------------------------------------------------------
(* Properties *)

\* request r is a `method` request to `route`
Is(r, route, method) == req[r].route = route /\ req[r].method = method
\* ... and its handler has returned
IsDone(r, route, method) == pc[r] = "done" /\ Is(r, route, method)
\* the handler of r leaves position p in this step
Leaves(r, p) == pc[r] = p /\ pc'[r] # p

\* C1: a POST /signup for an email that is not in the credential store
\* inserts it and redirects to /login; a POST /signup for an email that is in
\* the store is answered 409 and changes nothing; and an email once in the
\* store stays in it, so every later signup for it is the second case.
SignupThenConflict ==
    [][/\ \A r \in Reqs :
            /\ (Leaves(r, "su_locked") /\ req[r].email \notin DOMAIN users)
                    => (pc'[r] = "su_write" /\ users' = users)
            /\ Leaves(r, "su_write")
                    => /\ pc'[r] = "done"
                       /\ resp'[r].status = StatusSeeOther
                       /\ resp'[r].location = "/login"
                       /\ req[r].email \in DOMAIN users'
            /\ (Leaves(r, "su_locked") /\ req[r].email \in DOMAIN users)
                    => /\ pc'[r] = "done"
                       /\ resp'[r].status = StatusConflict
                       /\ users' = users
       /\ \A e \in DOMAIN users : e \in DOMAIN users']_vars

\* C1 witness: two signups for the same email, the first answered 303, the
\* second 409
SignupTwiceSeen ==
    \E r, o \in Reqs :
        /\ r # o
        /\ IsDone(r, "/signup", "POST") /\ IsDone(o, "/signup", "POST")
        /\ req[r].email = req[o].email
        /\ resp[r].status = StatusSeeOther
        /\ resp[o].status = StatusConflict

\* C2: a POST /login gets past the check exactly when the email is a key of
\* the credential store and the stored password equals the submitted one;
\* then it stores the session, sets the session_id cookie and redirects home;
\* otherwise it is answered 401.
LoginIffCredentialsMatch ==
    /\ [](\A r \in Reqs :
            (pc[r] = "li_write" \/ (IsDone(r, "/login", "POST")
                                    /\ resp[r].status = StatusSeeOther))
                => (req[r].email \in DOMAIN users
                    /\ users[req[r].email] = req[r].password))
    /\ [][\A r \in Reqs :
            /\ Leaves(r, "li_locked")
                => IF req[r].email \in DOMAIN users
                        /\ users[req[r].email] = req[r].password
                   THEN pc'[r] = "li_write"
                   ELSE /\ pc'[r] = "done"
                        /\ resp'[r].status = StatusUnauthorized
                        /\ resp'[r].setCookie = <<>>
            /\ Leaves(r, "li_write")
                => /\ pc'[r] = "done"
                   /\ resp'[r].status = StatusSeeOther
                   /\ resp'[r].location = "/"
                   /\ resp'[r].setCookie = <<sid[r], 0>>
                   /\ sid[r] \in DOMAIN sessions'
                   /\ sessions'[sid[r]] = req[r].email]_vars

\* C2 witness: one login answered 303 with its cookie, and one answered 401
\* for a registered email with the wrong password
LoginBothWaysSeen ==
    \E r, o \in Reqs :
        /\ IsDone(r, "/login", "POST") /\ resp[r].status = StatusSeeOther
        /\ resp[r].setCookie # <<>>
        /\ IsDone(o, "/login", "POST") /\ resp[o].status = StatusUnauthorized
        /\ req[o].email \in DOMAIN users
        /\ users[req[o].email] # req[o].password

\* C3: a home request that follows a completed logout carrying token t, and
\* looks t up while t is not in the session store, leaves the process
\* running and renders the anonymous state.
LogoutThenHomeAnonymous ==
    [][\A r \in Reqs :
            (/\ pc[r] = "home"
             /\ afterLogout[r]
             /\ req[r].cookie[1] \notin DOMAIN sessions
             /\ (pc'[r] # "home" \/ ~alive'))
                => /\ alive'
                   /\ pc'[r] = "done"
                   /\ resp'[r].view = "home.html"
                   /\ resp'[r].data = [LoggedIn |-> FALSE]]_vars

\* a handler inside the section it guards with mu
InCritical(r) ==
    pc[r] \in {"su_locked", "su_write", "li_locked", "li_write", "lo_locked", "lo_write"}

\* C4: signups are serialized by mu; a signup whose email is not registered
\* when it checks goes on to insert and is answered 303; the insert adds
\* exactly its own entry and keeps every other one; an email enters the store
\* only by the insert of a signup for it. So concurrent signups with distinct
\* unregistered emails all succeed and all their entries are in the store.
ConcurrentSignupsAllStored ==
    /\ [](\A r \in Reqs :
            /\ InCritical(r) => mu = r
            /\ pc[r] = "su_write" => req[r].email \notin DOMAIN users
            /\ (IsDone(r, "/signup", "POST") /\ resp[r].status = StatusSeeOther)
                    => /\ req[r].email \in DOMAIN users
                       /\ users[req[r].email] = req[r].password)
    /\ [][/\ \A r \in Reqs :
                /\ (Leaves(r, "su_locked") /\ req[r].email \notin DOMAIN users)
                        => pc'[r] = "su_write"
                /\ Leaves(r, "su_write")
                        => /\ resp'[r].status = StatusSeeOther
                           /\ DOMAIN users' = (DOMAIN users) \cup {req[r].email}
                           /\ users'[req[r].email] = req[r].password
                           /\ \A k \in DOMAIN users : users'[k] = users[k]
          /\ \A e \in (DOMAIN users') \ (DOMAIN users) :
                \E r \in Reqs : Leaves(r, "su_write") /\ req[r].email = e]_vars

\* C4 witness: two signups with distinct emails both answered 303, both
\* entries in the store
TwoSignupsStored ==
    \E r, o \in Reqs :
        /\ IsDone(r, "/signup", "POST") /\ IsDone(o, "/signup", "POST")
        /\ req[r].email # req[o].email
        /\ resp[r].status = StatusSeeOther /\ resp[o].status = StatusSeeOther
        /\ users[req[r].email] = req[r].password
        /\ users[req[o].email] = req[o].password

\* the next step of r reads or writes one of the two maps
AtMapAccess(r) ==
    InCritical(r) \/ (pc[r] = "home" /\ req[r].cookie # NoCookie)

\* C5: a handler that is about to read or write either map holds mu.
MapAccessUnderLock == \A r \in Reqs : AtMapAccess(r) => mu = r

\* C6: an entry of the session store stays, with the same email, in every
\* step except the completion of a logout that carries its token.
SessionLivesUntilItsLogout ==
    [][\A t \in DOMAIN sessions :
            \/ (t \in DOMAIN sessions' /\ sessions'[t] = sessions[t])
            \/ \E r \in Reqs : Leaves(r, "lo_write") /\ req[r].cookie = <<t>>]_vars

\* C7: no step removes an email from the credential store or changes the
\* password stored for it.
UsersNeverRemovedOrChanged ==
    [][\A e \in DOMAIN users : e \in DOMAIN users' /\ users'[e] = users[e]]_vars

\* C7 witness: a duplicate signup with another password was rejected and the
\* stored password is still the first one
DuplicateRejectedSeen ==
    \E r \in Reqs :
        /\ IsDone(r, "/signup", "POST")
        /\ resp[r].status = StatusConflict
        /\ req[r].email \in DOMAIN users
        /\ users[req[r].email] # req[r].password

\* C8: a POST to / is answered 405 and the home page is not rendered.
PostHomeNotAllowed ==
    \A r \in Reqs :
        IsDone(r, "/", "POST")
            => (resp[r].status = StatusMethodNotAllowed /\ resp[r].view # "home.html")

\* C9: a request whose method is neither GET nor POST, which the route table
\* allows on no route, is answered 405.
OtherMethodNotAllowed ==
    \A r \in Reqs :
        (pc[r] = "done" /\ req[r].method \notin {"GET", "POST"})
            => resp[r].status = StatusMethodNotAllowed

\* C10: a GET /weather with an empty city, or with an empty API key, never
\* issues an upstream call and is answered 400.
MissingParamsNoUpstreamCall ==
    \A r \in Reqs :
        (Is(r, "/weather", "GET") /\ (req[r].city = "" \/ apiKey = ""))
            => /\ calls[r] = 0
               /\ pc[r] \in {"weather", "done"}
               /\ pc[r] = "done" => resp[r].status = StatusBadRequest

\* C10 witness: both cases answered 400 - an empty city with a key set, or a
\* city given with no key
BadRequestSeen ==
    \E r \in Reqs :
        /\ IsDone(r, "/weather", "GET")
        /\ resp[r].status = StatusBadRequest
        /\ calls[r] = 0
        /\ (req[r].city = "") # (apiKey = "")

-----------------------------------------------------------------------------
(* Properties of weatherHandler *)

\* the handler of the GET /weather request r has got past the parameter check
Fetching(r) == Is(r, "/weather", "GET") /\ req[r].city # "" /\ apiKey # ""
\* the handler of r has returned or was unwound by a panic
Ended(r) == pc[r] \in {"done", "panicked"}
\* ... after json.Unmarshal had decoded the upstream body into `result`
EndedWith(r, result) ==
    /\ Ended(r)
    /\ Is(r, "/weather", "GET")
    /\ upstream[r] = [kind |-> "decoded", result |-> result]

\* C11: a GET /weather with a city and a key issues no upstream call before
\* http.Get and exactly one from then on, also when it has ended; and if the
\* call failed, the body could not be read or could not be decoded, it is
\* answered 500 with no template rendered.
OneUpstreamCallAndErrorsAre500 ==
    \A r \in Reqs :
        Fetching(r)
            => /\ pc[r] \in {"weather", "w_get", "done", "panicked"}
               /\ calls[r] = (IF pc[r] = "weather" THEN 0 ELSE 1)
               /\ Ended(r) => upstream[r] # NoUpstream
               /\ (Ended(r) /\ upstream[r].kind
                                \in {"get_error", "read_error", "decode_error"})
                    => /\ pc[r] = "done"
                       /\ resp[r].status = StatusInternalServerError
                       /\ resp[r].view = ""
                       /\ resp[r].data = NoData

\* C11 witness: two requests, each with its one call, one whose call failed
\* and one whose body was not JSON, both answered 500
UpstreamFailuresSeen ==
    \E r, o \in Reqs :
        /\ Fetching(r) /\ pc[r] = "done" /\ upstream[r].kind = "get_error"
        /\ Fetching(o) /\ pc[o] = "done" /\ upstream[o].kind = "decode_error"
        /\ calls[r] = 1 /\ calls[o] = 1
        /\ resp[r].status = StatusInternalServerError
        /\ resp[o].status = StatusInternalServerError

\* the decoded body has a top-level error that is a JSON object
HasErrorObject(result) == Index(result, "error").t = "map"
\* ... whose type is the string rate_limit_reached
IsRateLimit(result) ==
    LET type == Index(Index(result, "error").m, "type")
    IN  type.t = "string" /\ type.s = "rate_limit_reached"

\* C12: when the decoded body has a top-level error object, the handler
\* answers 200 with error.html: with the rate-limit message if the type of
\* the error is rate_limit_reached, and with the city-not-found message for
\* any other type, a type that is no string, and no type at all.
ErrorObjectRendersErrorPage ==
    \A r \in Reqs :
        (Ended(r) /\ Is(r, "/weather", "GET") /\ upstream[r].kind = "decoded"
            /\ HasErrorObject(upstream[r].result))
            => /\ pc[r] = "done"
               /\ resp[r].status = StatusOK
               /\ resp[r].view = "error.html"
               /\ resp[r].body = ""
               /\ resp[r].data =
                    [Message |-> IF IsRateLimit(upstream[r].result)
                                 THEN RateLimitMessage
                                 ELSE NotFoundMessage]

\* C12 witness: a rate-limit error rendered with the rate-limit message and
\* an error without type rendered with the city-not-found message
BothErrorMessagesSeen ==
    \E r, o \in Reqs :
        /\ EndedWith(r, ErrorResult("rate_limit_reached"))
        /\ resp[r].data = [Message |-> RateLimitMessage]
        /\ EndedWith(o, [error |-> JMap([k \in {} |-> JNil])])
        /\ resp[o].data = [Message |-> NotFoundMessage]

\* C14: for the upstream body with temperature 21.5, ["Sunny"], humidity 40,
\* wind speed 10, Paris, France, the data passed to weather_result.html is
\* City "Paris, France", Temperature "21.5" followed by the degree sign
\* (U+00B0) and "C", Weather "Sunny", Humidity "40%", WindSpeed "10 km/h".
ParisDataAsSpecified ==
    \A r \in Reqs :
        EndedWith(r, ParisResult)
            => /\ pc[r] = "done"
               /\ resp[r].view = "weather_result.html"
               /\ resp[r].data = [City |-> "Paris, France",
                                  Temperature |-> "21.5<U+00B0>C",
                                  Weather |-> "Sunny",
                                  Humidity |-> "40%",
                                  WindSpeed |-> "10 km/h"]

\* C17: every body of DeviantResults (the expected body with one field
\* missing, of the wrong type, or with no description) ends the request in
\* a panic, with nothing rendered.
EveryDeviationFaults ==
    \A r \in Reqs :
        (Ended(r) /\ Is(r, "/weather", "GET") /\ upstream[r].kind = "decoded"
            /\ upstream[r].result \in DeviantResults)
            => (pc[r] = "panicked" /\ resp[r] = NoResponse)

\* the deviations that hit a type assertion or the index [0]
AssertedDeviations ==
    {MissingTop(k) : k \in {"current", "location"}}
        \cup {WrongTop(k) : k \in {"current", "location"}}
        \cup {MissingCurrent(k) : k \in {"temperature", "weather_descriptions"}}
        \cup {WrongCurrent(k) : k \in {"temperature", "weather_descriptions"}}
        \cup {NoDescriptions, NumericDescription}
\* the deviations in fields that are only formatted with %s or %v
FormattedDeviations == DeviantResults \ AssertedDeviations

\* C17 (amended): a deviation in current, location, current.temperature or
\* current.weather_descriptions (missing, wrong type, empty array, first
\* description not a string) ends the request in a panic with nothing
\* rendered; a deviation in location.name, location.country,
\* current.humidity or current.wind_speed does not: the result template is
\* rendered, a missing field showing as fmt's placeholder for nil.
OnlyAssertedDeviationsFault ==
    \A r \in Reqs :
        (Ended(r) /\ Is(r, "/weather", "GET") /\ upstream[r].kind = "decoded")
            => /\ upstream[r].result \in AssertedDeviations
                    => (pc[r] = "panicked" /\ resp[r] = NoResponse)
               /\ upstream[r].result \in FormattedDeviations
                    => /\ pc[r] = "done"
                       /\ resp[r].status = StatusOK
                       /\ resp[r].view = "weather_result.html"
               /\ upstream[r].result = MissingLocation("name")
                    => resp[r].data.City = "%!s(<nil>), France"
               /\ upstream[r].result = MissingLocation("country")
                    => resp[r].data.City = "Paris, %!s(<nil>)"
               /\ upstream[r].result = WrongLocation("name")
                    => resp[r].data.City = "%!s(float64=1), France"
               /\ upstream[r].result = MissingCurrent("humidity")
                    => resp[r].data.Humidity = "<nil>%"
               /\ upstream[r].result = MissingCurrent("wind_speed")
                    => resp[r].data.WindSpeed = "<nil> km/h"

\* C17 witness: a body with no descriptions ended in a panic, and a body
\* without location.name was rendered
FaultAndRenderSeen ==
    \E r, o \in Reqs :
        /\ EndedWith(r, NoDescriptions) /\ pc[r] = "panicked"
        /\ EndedWith(o, MissingLocation("name")) /\ pc[o] = "done"
        /\ resp[o].view = "weather_result.html"

-----------------------------------------------------------------------------
(* Properties of the session store *)

\* C13: a logout without cookie, or with a token that is not in the session
\* store, leaves both stores as they are; a logout with a token t that is in
\* the store removes the entry of t and keeps every other entry; in every
\* case it clears the cookie and redirects home, and t is not in the store
\* afterwards, so a second logout with t changes nothing.
LogoutIdempotentOnStore ==
    [][\A r \in Reqs :
        /\ (Leaves(r, "logout") \/ Leaves(r, "lo_locked"))
                => (users' = users /\ sessions' = sessions)
        /\ (Leaves(r, "logout") /\ req[r].cookie = NoCookie)
                => /\ pc'[r] = "done"
                   /\ resp'[r] = Redirect("/", StatusSeeOther, <<"", -1>>)
        /\ Leaves(r, "lo_write")
                => /\ users' = users
                   /\ req[r].cookie[1] \notin DOMAIN sessions => sessions' = sessions
                   /\ DOMAIN sessions' = (DOMAIN sessions) \ {req[r].cookie[1]}
                   /\ \A k \in DOMAIN sessions' : sessions'[k] = sessions[k]
                   /\ pc'[r] = "done"
                   /\ resp'[r] = Redirect("/", StatusSeeOther, <<"", -1>>)]_vars

\* C13 witness: two logouts with the same token have both completed, the
\* token is gone and another session is still there
TwoLogoutsSameTokenSeen ==
    \E r, o \in Reqs :
        /\ r # o
        /\ pc[r] = "done" /\ req[r].route = "/logout"
        /\ pc[o] = "done" /\ req[o].route = "/logout"
        /\ req[r].cookie # NoCookie
        /\ req[o].cookie = req[r].cookie
        /\ req[r].cookie[1] \notin DOMAIN sessions
        /\ sessions # EmptyMap

\* C15: the home handler renders LoggedIn=true with Email=e exactly when
\* the request carries a session_id cookie that is a key of the session
\* store mapping to e, renders LoggedIn=false otherwise, and leaves both
\* stores (and the process) as they are.
HomeRendersSessionState ==
    [][\A r \in Reqs :
        (pc[r] = "home" /\ (pc'[r] # "home" \/ ~alive'))
            => /\ alive'
               /\ pc'[r] = "done"
               /\ resp'[r].view = "home.html"
               /\ resp'[r].data =
                    (IF req[r].cookie # NoCookie
                        /\ req[r].cookie[1] \in DOMAIN sessions
                     THEN [LoggedIn |-> TRUE, Email |-> sessions[req[r].cookie[1]]]
                     ELSE [LoggedIn |-> FALSE])
               /\ users' = users
               /\ sessions' = sessions]_vars

\* every other connection is idle or in weatherHandler
OnlyWeatherBeside(o) ==
    \A q \in Reqs \ {o} : pc[q] \in {"idle", "done", "panicked", "weather", "w_get"}
\* o is in signup, login or logout, before or inside the locked section
InStoreHandler(o) ==
    \/ InCritical(o)
    \/ (pc[o] \in {"signup", "login"} /\ req[o].method = "POST")
    \/ (pc[o] = "logout" /\ req[o].cookie # NoCookie)
\* the next step of the store handler of o
StoreStep(o) ==
    \/ SignupLock(o) \/ SignupCheck(o) \/ SignupInsert(o)
    \/ LoginLock(o) \/ LoginCheck(o) \/ LoginStore(o)
    \/ LogoutLock(o) \/ LogoutBegin(o) \/ LogoutDelete(o)

\* C16: mu is only ever held by a handler inside a locked section of signup,
\* login or logout, never by a weather request; no step of a weather
\* request changes users, sessions or mu; a signup, login or logout whose
\* only company are weather requests (blocked in the upstream call or not)
\* can always take its next step; and every weather request that reaches
\* the upstream call issues its own call, whatever the others do.
WeatherTakesNoLock ==
    /\ [](\A r \in Reqs :
            /\ mu = r => InCritical(r)
            /\ pc[r] = "w_get" => calls[r] = 1
            /\ (alive /\ InStoreHandler(r) /\ OnlyWeatherBeside(r))
                    => ENABLED StoreStep(r))
    /\ [][\A r \in Reqs :
            (pc[r] \in {"weather", "w_get"} /\ pc'[r] # pc[r])
                => /\ users' = users
                   /\ sessions' = sessions
                   /\ mu' = mu
                   /\ \A o \in Reqs \ {r} : calls'[o] = calls[o]]_vars

\* C16 witness: two weather requests for the same city are both blocked in
\* their own upstream call
TwoUpstreamCallsSeen ==
    \E r, o \in Reqs :
        /\ r # o
        /\ pc[r] = "w_get" /\ pc[o] = "w_get"
        /\ req[r].city = req[o].city
        /\ calls[r] = 1 /\ calls[o] = 1

\* C18: a POST /login that leaves the check with a response is answered 401
\* without Set-Cookie and changes neither store; and an entry of the session
\* store is added or changed only by the completing write of a login whose
\* email is registered with the submitted password, which is answered 303.
FailedLoginChangesNothing ==
    [][/\ \A r \in Reqs :
            (Leaves(r, "li_locked") /\ pc'[r] = "done")
                => /\ resp'[r].status = StatusUnauthorized
                   /\ resp'[r].setCookie = <<>>
                   /\ users' = users
                   /\ sessions' = sessions
       /\ \A t \in DOMAIN sessions' :
            (t \notin DOMAIN sessions \/ sessions'[t] # sessions[t])
                => \E r \in Reqs :
                    /\ Leaves(r, "li_write")
                    /\ req[r].email \in DOMAIN users
                    /\ users[req[r].email] = req[r].password
                    /\ resp'[r].status = StatusSeeOther
                    /\ t = sid[r]
                    /\ sessions'[t] = req[r].email]_vars

\* C18 witness: a login for an unregistered email was answered 401 without
\* cookie while the session store holds a session
FailedLoginSeen ==
    \E r \in Reqs :
        /\ IsDone(r, "/login", "POST")
        /\ resp[r].status = StatusUnauthorized
        /\ resp[r].setCookie = <<>>
        /\ req[r].email \notin DOMAIN users
        /\ sessions # EmptyMap

\* C19: every email that is a value of the session store is a key of the
\* credential store.
SessionsBelongToUsers == \A t \in DOMAIN sessions : sessions[t] \in DOMAIN users

\* C19 witness: two sessions of two different registered users
TwoUsersSessionsSeen ==
    \E t, u \in DOMAIN sessions :
        /\ sessions[t] # sessions[u]
        /\ sessions[t] \in DOMAIN users
        /\ sessions[u] \in DOMAIN users

-----------------------------------------------------------------------------
(* Progress.  The Go scheduler runs every runnable goroutine, so a handler *)
(* step that stays possible is eventually taken; sync.Mutex hands the lock *)
(* to a waiter that has been starved (starvation mode), so a goroutine     *)
(* blocked in mu.Lock() gets mu if it is released again and again.         *)
(* Nothing obliges a client to send a request, or the upstream to answer.  *)

\* mu.Lock() of the handler of r returns
LockStep(r) == SignupLock(r) \/ LoginLock(r) \/ LogoutLock(r)

\* any other step of the handler of r that does not wait for the upstream
RunStep(r) ==
    \/ HomeHandler(r)
    \/ SignupGet(r) \/ SignupOther(r) \/ SignupCheck(r) \/ SignupInsert(r)
    \/ LoginGet(r) \/ LoginOther(r) \/ LoginCheck(r) \/ LoginStore(r)
    \/ LogoutNoCookie(r) \/ LogoutBegin(r) \/ LogoutDelete(r)
    \/ WeatherMethod(r) \/ WeatherBadRequest(r) \/ WeatherGet(r)

Fairness == \A r \in Reqs : WF_vars(RunStep(r)) /\ SF_vars(LockStep(r))

FairSpec == Spec /\ Fairness

\* C20: a handler inside a locked section is the one holder of mu, a
\* handler that has returned does not hold mu, and every signup, login or
\* logout that has reached mu.Lock() or is inside the locked section
\* eventually completes.
LockReleasedAndRequestsComplete ==
    /\ [](\A r \in Reqs : (InCritical(r) => mu = r) /\ (mu = r => InCritical(r)))
    /\ \A r \in Reqs : InStoreHandler(r) ~> (pc[r] = "done")

\* as long as the process runs, every such request completes
CompletesWhileAlive ==
    \A r \in Reqs : InStoreHandler(r) ~> (pc[r] = "done" \/ ~alive)

====
